---- MODULE Spec2Model ----
(***************************************************************************)
(* Model of the Uniswap V3 pool report tool (src/src/app.js,               *)
(* src/src/priceFetcher.js, src/src/graphqlQuery.js).                       *)
(*                                                                         *)
(* JavaScript numbers are modelled as exact rationals v/d (d > 0) together  *)
(* with the special values NaN, +Infinity, -Infinity and undefined.  USD    *)
(* amounts are rationals in dollars.  Floating-point rounding is not        *)
(* modelled.                                                                *)
(***************************************************************************)
EXTENDS Integers, Sequences, FiniteSets, TLC

VARIABLES
    pc,                 \* position of fetchPoolsPricesAndAPR / fetchAllPools
    useCache,           \* app.js:179 parameter, reassigned at app.js:193
    limit,              \* app.js:179 / app.js:93 parameter
    cacheFile,          \* the file at CACHE_FILE
    significantPools,   \* app.js:181 local of fetchPoolsPricesAndAPR
    allPools,           \* app.js:94
    lastPoolId,         \* app.js:95
    fetchMore,          \* app.js:96
    significantPoolsSet,\* app.js:98
    fapSignificantPools,\* app.js:99 local significantPools of fetchAllPools
    outstanding,        \* page requests in flight
    hist,               \* observations of the run (requests, pages, saves, ...)
    fPool,              \* argument of a direct call of isPoolSignificant
    fResult,            \* its result ("none" before the call)
    fApr,               \* app.js:66 apr computed by that call
    fEnriched,          \* result of the map callback (app.js:223-269) on fPool
    tpc,                \* position of a direct call of fetchTokenPrices
    tpTokenIds,         \* priceFetcher.js:15 parameter tokenIds
    priceTable,         \* prices the price service holds during the call
    tpIndex,            \* priceFetcher.js:20 loop variable i
    tpTokenPrices,      \* priceFetcher.js:18 tokenPrices
    tpOutstanding,      \* price requests in flight
    tpHist,             \* observations of the call (batches requested, result)
    store,              \* direct calls of saveToCache / loadFromCache
    boot                \* module start-up, app.js:9-31

vars == <<pc, useCache, limit, cacheFile, significantPools, allPools,
          lastPoolId, fetchMore, significantPoolsSet, fapSignificantPools,
          outstanding, hist, fPool, fResult, fApr, fEnriched,
          tpc, tpTokenIds, priceTable, tpIndex, tpTokenPrices, tpOutstanding, tpHist,
          store, boot>>

-----------------------------------------------------------------------------
(* JavaScript number values *)

Rat(n, m) == [k |-> "num", v |-> n, d |-> m]
Num(n) == Rat(n, 1)
NaN == [k |-> "nan", v |-> 0, d |-> 1]
PosInf == [k |-> "inf", v |-> 1, d |-> 1]
NegInf == [k |-> "inf", v |-> -1, d |-> 1]
Undef == [k |-> "undef", v |-> 0, d |-> 1]

\* ToBoolean of a number value: 0, NaN and undefined are falsy
Truthy(x) == \/ x.k = "inf"
             \/ x.k = "num" /\ x.v # 0

\* global isNaN(x): ToNumber(undefined) is NaN
isNaN(x) == x.k \in {"nan", "undef"}

\* x >= p/q for a number value x (false whenever x is NaN or undefined)
GreaterEq(x, p, q) ==
    CASE x.k = "num" -> x.v * q >= p * x.d
      [] x.k = "inf" -> x.v = 1
      [] OTHER -> FALSE

\* x < p/q for a number value x (false whenever x is NaN or undefined)
LessThan(x, p, q) ==
    CASE x.k = "num" -> x.v * q < p * x.d
      [] x.k = "inf" -> x.v = -1
      [] OTHER -> FALSE

\* x > p/q for a number value x (false whenever x is NaN or undefined)
GreaterThan(x, p, q) ==
    CASE x.k = "num" -> x.v * q > p * x.d
      [] x.k = "inf" -> x.v = 1
      [] OTHER -> FALSE

RECURSIVE Gcd(_, _)
Gcd(a, b) == IF b = 0 THEN a ELSE Gcd(b, a % b)

Abs(n) == IF n < 0 THEN -n ELSE n

\* the rational n/m (m > 0) in lowest terms
Reduced(n, m) ==
    LET g == Gcd(Abs(n), m) IN Rat(n \div g, m \div g)

-----------------------------------------------------------------------------
(* APR estimator (aprCalculator.js, imported at app.js:4) *)

\* (feeTier / 1e6 * volume / liquidity) * 365 * 100 ; 365 * 100 / 1e6 = 73 / 2000.
\* feeTier is a finite number >= 0.  A division by zero gives an infinity, or
\* NaN for 0 / 0, as for any JavaScript number.
calculateAPR(feeTier, volumeUSD, liquidity) ==
    CASE volumeUSD.k \in {"nan", "undef"} -> NaN
      [] volumeUSD.k = "inf" ->
            IF feeTier.v = 0 \/ liquidity.k = "inf" THEN NaN
            ELSE IF volumeUSD.v = 1 THEN PosInf ELSE NegInf
      [] liquidity.k = "inf" -> Num(0)
      [] liquidity.k \in {"nan", "undef"} -> NaN
      [] OTHER ->
            LET n == feeTier.v * volumeUSD.v * liquidity.d * 73
                m == feeTier.d * volumeUSD.d * liquidity.v * 2000
            IN  IF m = 0
                THEN IF n = 0 THEN NaN ELSE IF n > 0 THEN PosInf ELSE NegInf
                ELSE IF m < 0 THEN Reduced(-n, -m) ELSE Reduced(n, m)

-----------------------------------------------------------------------------
(* Thresholds, app.js:24-27 *)

liquidityThreshold == 50000
volumeThreshold == 1000
\* aprPercentageThreshold = 0.05 = 1/20
aprPercentageThresholdNum == 1
aprPercentageThresholdDen == 20
aprMaxValue == 200

\* Mutant: a liquidity of 0 is passed on (>= 0 for > 0)
LiquidityOrOneZeroKept(pool) ==
    IF GreaterEq(pool.liquidity, 0, 1) THEN pool.liquidity ELSE Num(1)

\* app.js:65 and app.js:245: pool.liquidity > 0 ? pool.liquidity : 1
LiquidityOrOne(pool) ==
    IF GreaterThan(pool.liquidity, 0, 1) THEN pool.liquidity ELSE Num(1)

\* app.js:65-66: the apr the filter computes
FilterApr(pool) == calculateAPR(pool.feeTier, pool.volumeUSD, LiquidityOrOne(pool))

\* Mutant: the upper APR bound taken inclusive (apr <= aprMaxValue)
isPoolSignificantInclusiveMax(pool) ==
    LET totalValueLockedUSD == pool.totalValueLockedUSD
        dailyVolumeUSD == pool.volumeUSD
        liquidity == LiquidityOrOne(pool)
        apr == calculateAPR(pool.feeTier, dailyVolumeUSD, liquidity)
    IN  /\ Truthy(dailyVolumeUSD)
        /\ ~isNaN(dailyVolumeUSD)
        /\ GreaterEq(totalValueLockedUSD, liquidityThreshold, 1)
        /\ GreaterEq(dailyVolumeUSD, volumeThreshold, 1)
        /\ GreaterEq(apr, aprPercentageThresholdNum, aprPercentageThresholdDen)
        /\ (LessThan(apr, aprMaxValue, 1) \/ apr = Num(aprMaxValue))
        /\ apr # PosInf

\* app.js:59-86, for a pool that is an object (not null)
isPoolSignificant(pool) ==
    LET totalValueLockedUSD == pool.totalValueLockedUSD
        dailyVolumeUSD == pool.volumeUSD
        liquidity == LiquidityOrOne(pool)
        apr == calculateAPR(pool.feeTier, dailyVolumeUSD, liquidity)
    IN  /\ Truthy(dailyVolumeUSD)
        /\ ~isNaN(dailyVolumeUSD)
        /\ GreaterEq(totalValueLockedUSD, liquidityThreshold, 1)
        /\ GreaterEq(dailyVolumeUSD, volumeThreshold, 1)
        /\ GreaterEq(apr, aprPercentageThresholdNum, aprPercentageThresholdDen)
        /\ LessThan(apr, aprMaxValue, 1)
        /\ apr # PosInf

-----------------------------------------------------------------------------
(* Direct calls of the exported filter: isPoolSignificant(pool) *)

FeeTiers == {0, 1, 100, 500, 3000}
Liquidities == {Num(-5), Num(0), Num(1), Num(73), Num(1000), Num(73000)}
Volumes == {Num(-2000), Num(0), Num(999), Num(1000), Num(4000), NaN, PosInf, Undef}
Tvls == {Num(0), Num(49999), Num(50000), Num(60000), NaN, Undef}

MkPool(id, t0, t1, fee, liq, vol, tvl) ==
    [tag |-> "pool", id |-> id, token0 |-> t0, token1 |-> t1,
     feeTier |-> fee, liquidity |-> liq, volumeUSD |-> vol,
     totalValueLockedUSD |-> tvl,
     token0Price |-> Undef, token1Price |-> Undef, apr |-> Undef,
     oneDayVolTVL |-> Undef]

FilterInputs ==
    {MkPool(1, "0xa", "0xb", Num(f), l, v, t) :
        f \in FeeTiers, l \in Liquidities, v \in Volumes, t \in Tvls}

-----------------------------------------------------------------------------
(* The pool listing service, the price service and the cache file *)

batchSize == 50         \* app.js:97
LIMIT == 100000         \* app.js:30
priceBatchSize == 10    \* priceFetcher.js:17

MaxShortPage == 2       \* longest page below a full batch that the service returns
MaxCacheLen == 2        \* longest list found in the cache file at start

\* null as an element of a pool list (app.js:229, app.js:238)
Null ==
    [tag |-> "null", id |-> 0, token0 |-> "", token1 |-> "",
     feeTier |-> Undef, liquidity |-> Undef, volumeUSD |-> Undef,
     totalValueLockedUSD |-> Undef,
     token0Price |-> Undef, token1Price |-> Undef, apr |-> Undef,
     oneDayVolTVL |-> Undef]

\* pools the listing service may return; apr = feeTier * volume * 73 / (2000 * liquidity)
PoolA == MkPool(1, "0xA", "0xb", Num(3000), Num(10000), Num(2000), Num(60000))
PoolB == MkPool(2, "0xb", "0xc", Num(3000), Num(10000), Num(2000), Num(49999))
PoolC == MkPool(1, "0xc", "0xA", Num(500), Num(20000), Num(5000), Num(90000))
PoolD == MkPool(3, "0xb", "0xc", Num(500), Num(1000), Num(1000), Num(50000))
PoolKinds == {PoolA, PoolB, PoolC, PoolD}

RECURSIVE SeqsUpTo(_, _)
SeqsUpTo(S, n) ==
    IF n = 0 THEN {<<>>}
    ELSE LET shorter == SeqsUpTo(S, n - 1)
         IN  shorter \cup {Append(s, x) : s \in {t \in shorter : Len(t) = n - 1}, x \in S}

\* a full batch: batchSize pools with ascending identifiers
FullPage(kind) == [i \in 1..batchSize |-> [kind EXCEPT !.id = i]]

\* data.pools of a response (app.js:107)
Pages == SeqsUpTo(PoolKinds, MaxShortPage) \cup {FullPage(p) : p \in PoolKinds}

Limits == {0, 1, 2, LIMIT}

\* String.prototype.toLowerCase on the token addresses of the model
Lower(a) == IF a = "0xA" THEN "0xa" ELSE a

\* prices in USD the price service knows, keyed by lowercase address
PriceTables ==
    { [a \in {"0xa", "0xb", "0xc"} |-> Num(2)],
      [a \in {"0xa", "0xb"} |-> Num(2)],
      [a \in {"0xa", "0xb", "0xc"} |->
            IF a = "0xc" THEN Rat(9, 10000000) ELSE Rat(1, 1000000)],
      [a \in {"0xa", "0xb", "0xc"} |-> IF a = "0xb" THEN Num(0) ELSE Num(1)] }

\* JSON.parse(JSON.stringify(x)) of a number value: NaN and the infinities
\* are written as null; an undefined property is omitted
JsonNumber(x) == IF x.k \in {"nan", "inf"} THEN [k |-> "null", v |-> 0, d |-> 1] ELSE x

JsonEntry(e) ==
    [e EXCEPT !.feeTier = JsonNumber(@), !.liquidity = JsonNumber(@),
              !.volumeUSD = JsonNumber(@), !.totalValueLockedUSD = JsonNumber(@),
              !.token0Price = JsonNumber(@), !.token1Price = JsonNumber(@),
              !.apr = JsonNumber(@), !.oneDayVolTVL = JsonNumber(@)]

Json(list) == [i \in 1..Len(list) |-> JsonEntry(list[i])]

\* Mutant: the list is appended to what the file holds
saveToCacheAppend(file, list, ok) ==
    IF ok THEN [st |-> "ok", data |-> file.data \o Json(list)] ELSE file

\* app.js:146-153: the file after saveToCache(list); a failed write is caught
saveToCache(file, list, ok) ==
    IF ok THEN [st |-> "ok", data |-> Json(list)] ELSE file

\* Mutant: an empty list stands for "no data"
loadFromCacheEmptyList(file) ==
    IF file.st = "ok" THEN [isNull |-> FALSE, data |-> file.data]
    ELSE [isNull |-> FALSE, data |-> <<>>]

\* app.js:156-169: null when the file is absent or cannot be read or parsed
loadFromCache(file) ==
    IF file.st = "ok" THEN [isNull |-> FALSE, data |-> file.data]
    ELSE [isNull |-> TRUE, data |-> <<>>]

-----------------------------------------------------------------------------
(* Price lookup, priceFetcher.js:15-34 *)

Min(a, b) == IF a < b THEN a ELSE b

\* tokenIds.slice(i, i + batchSize) for the b-th batch (b = 1, 2, ...)
PriceBatch(tokenIds, b) ==
    SubSeq(tokenIds, (b - 1) * priceBatchSize + 1,
           Min(b * priceBatchSize, Len(tokenIds)))

NumPriceBatches(tokenIds) == (Len(tokenIds) + priceBatchSize - 1) \div priceBatchSize

\* response.data of the request for one batch: the prices the service knows
\* for the lowercased addresses of the batch
PriceResponse(table, batch) ==
    LET asked == {Lower(batch[i]) : i \in 1..Len(batch)} \cap DOMAIN table
    IN  [a \in asked |-> table[a]]

\* Object.assign(tokenPrices, data)
ObjectAssign(target, data) ==
    [a \in DOMAIN target \cup DOMAIN data |->
        IF a \in DOMAIN data THEN data[a] ELSE target[a]]

EmptyObject == [a \in {} |-> Num(0)]

RECURSIVE PriceLoop(_, _, _, _, _)
PriceLoop(tokenIds, table, failAt, b, tokenPrices) ==
    IF b > NumPriceBatches(tokenIds)
    THEN [prices |-> tokenPrices, requests |-> b - 1, failed |-> FALSE]
    ELSE IF b = failAt
    THEN [prices |-> EmptyObject, requests |-> b, failed |-> TRUE]
    ELSE PriceLoop(tokenIds, table, failAt, b + 1,
                   ObjectAssign(tokenPrices, PriceResponse(table, PriceBatch(tokenIds, b))))

\* fetchTokenPrices(tokenIds) against a service holding `table`, whose
\* failAt-th request raises (failAt = 0: no request raises)
fetchTokenPrices(tokenIds, table, failAt) ==
    PriceLoop(tokenIds, table, failAt, 1, EmptyObject)

-----------------------------------------------------------------------------
(* Enrichment, app.js:213-269 *)

RECURSIVE Unique(_)
\* [...new Set(list)]: first occurrences, in order
Unique(list) ==
    IF list = <<>> THEN <<>>
    ELSE LET init == Unique(SubSeq(list, 1, Len(list) - 1))
             x == list[Len(list)]
         IN  IF \E i \in 1..Len(init) : init[i] = x THEN init ELSE Append(init, x)

RECURSIVE FlatTokens(_)
\* significantPools.flatMap(pool => [pool.token0.id, pool.token1.id])
FlatTokens(pools) ==
    IF pools = <<>> THEN <<>>
    ELSE <<pools[1].token0, pools[1].token1>> \o FlatTokens(Tail(pools))

\* tokenPrices[id.toLowerCase()]?.usd || 0
PriceOrZero(tokenPrices, id) ==
    IF Lower(id) \in DOMAIN tokenPrices /\ Truthy(tokenPrices[Lower(id)])
    THEN tokenPrices[Lower(id)] ELSE Num(0)

\* parseFloat of a number value
parseFloat(x) == IF x.k \in {"num", "inf"} THEN x ELSE NaN

\* the callback of significantPools.map, app.js:223-269
Enrich(pool, tokenPrices) ==
    LET token0Price == PriceOrZero(tokenPrices, pool.token0)
        token1Price == PriceOrZero(tokenPrices, pool.token1)
        totalValueLockedUSD == parseFloat(pool.totalValueLockedUSD)
        volumeUSD == parseFloat(pool.volumeUSD)
        oneDayVolTVL ==
            IF totalValueLockedUSD.k = "num" /\ volumeUSD.k = "num"
               /\ totalValueLockedUSD.v # 0
            THEN Reduced((IF totalValueLockedUSD.v < 0 THEN -1 ELSE 1)
                            * volumeUSD.v * totalValueLockedUSD.d * 100,
                         volumeUSD.d * Abs(totalValueLockedUSD.v))
            ELSE NaN
        apr == parseFloat(calculateAPR(pool.feeTier, pool.volumeUSD, LiquidityOrOne(pool)))
    IN  IF LessThan(token0Price, 1, 1000000) \/ LessThan(token1Price, 1, 1000000)
        THEN Null
        ELSE IF ~Truthy(totalValueLockedUSD) \/ ~Truthy(volumeUSD)
        THEN Null
        ELSE [pool EXCEPT !.token0Price = token0Price, !.token1Price = token1Price,
                          !.apr = apr, !.oneDayVolTVL = oneDayVolTVL]

EnrichAll(pools, tokenPrices) == [i \in 1..Len(pools) |-> Enrich(pools[i], tokenPrices)]

-----------------------------------------------------------------------------
(* The significance test as the fetcher and the orchestrator call it *)

\* app.js:117 and app.js:189 call isSignificantPool.  app.js declares the
\* filter as isPoolSignificant (app.js:59) and neither declares nor imports
\* (app.js:1-7) an isSignificantPool, so evaluating the call raises a
\* ReferenceError before the filter runs.
isSignificantPool(pool) == [threw |-> TRUE, val |-> FALSE]

RECURSIVE FilterCached(_)
\* cachedPools.filter(pool => isSignificantPool(pool)), app.js:189
FilterCached(list) ==
    IF list = <<>> THEN [threw |-> FALSE, val |-> <<>>]
    ELSE LET c == isSignificantPool(Head(list))
         IN  IF c.threw THEN [threw |-> TRUE, val |-> <<>>]
             ELSE LET rest == FilterCached(Tail(list))
                  IN  IF rest.threw THEN rest
                      ELSE [threw |-> FALSE,
                            val |-> IF c.val THEN <<Head(list)>> \o rest.val
                                    ELSE rest.val]

RECURSIVE ProcessPools(_, _, _)
\* the for loop over data.pools, app.js:110-128; st holds the locals of fetchAllPools
ProcessPools(pools, lim, st) ==
    IF pools = <<>> THEN st
    ELSE LET pool == Head(pools)
             st1 == [st EXCEPT !.allPools = Append(@, pool), !.lastPoolId = pool.id]
             c == isSignificantPool(pool)
         IN  IF c.threw THEN [st1 EXCEPT !.threw = TRUE]
             ELSE LET st2 == IF c.val /\ pool.id \notin st1.set
                             THEN [st1 EXCEPT !.set = @ \cup {pool.id},
                                              !.sig = Append(@, pool)]
                             ELSE st1
                  IN  IF Len(st2.allPools) >= lim
                      THEN [st2 EXCEPT !.fetchMore = FALSE]
                      ELSE ProcessPools(Tail(pools), lim, st2)

-----------------------------------------------------------------------------
(* State machine of one run of fetchPoolsPricesAndAPR(limit, useCache) *)

CacheEntries == {Null, PoolA, PoolB, PoolD,
                 Enrich(PoolA, [a \in {"0xa", "0xb"} |-> Num(2)])}

CacheFiles ==
    {[st |-> "absent", data |-> <<>>], [st |-> "corrupt", data |-> <<>>]}
    \cup {[st |-> "ok", data |-> l] : l \in SeqsUpTo(CacheEntries, MaxCacheLen)}

Hist0(uc, file) ==
    [useCache0 |-> uc, cache0 |-> file, fetchCalled |-> FALSE,
     pageRequests |-> 0, cursors |-> <<>>, pages |-> <<>>, reqFailed |-> FALSE,
     requestsAtFail |-> 0, fetchResult |-> <<>>, saves |-> <<>>,
     atStep4 |-> FALSE, listAtStep4 |-> <<>>,
     priceCalled |-> FALSE, priceRequests |-> 0,
     outcome |-> "running"]

FilterIdle == /\ fPool = Null
              /\ fResult = "none"
              /\ fApr = Undef
              /\ fEnriched = Null

TpHist0 == [requests |-> <<>>, merged |-> 0, delays |-> 0, failed |-> FALSE,
            requestsAtFail |-> 0, returned |-> FALSE, result |-> EmptyObject,
            raised |-> FALSE]

PricesIdle ==
    /\ tpc = "idle"
    /\ tpTokenIds = <<>>
    /\ priceTable = EmptyObject
    /\ tpIndex = 0
    /\ tpTokenPrices = EmptyObject
    /\ tpOutstanding = 0
    /\ tpHist = TpHist0

Store0 == [phase |-> "idle", calls |-> 0, hasSaved |-> FALSE, lastSaved |-> <<>>,
           loaded |-> [isNull |-> TRUE, data |-> <<>>],
           fileAtLoad |-> [st |-> "absent", data |-> <<>>], raised |-> FALSE]

StoreIdle == store = Store0

Boot0 == [phase |-> "idle", subgraphUrl |-> FALSE, priceUrl |-> FALSE,
          cacheName |-> FALSE, demoKey |-> FALSE, showHelp |-> FALSE,
          useCacheFlag |-> FALSE, error |-> "none"]

BootIdle == boot = Boot0

CallsIdle == FilterIdle /\ PricesIdle /\ StoreIdle /\ BootIdle

RunIdleButFile ==
    /\ pc = "idle"
    /\ useCache = FALSE
    /\ limit = 0
    /\ significantPools = <<>>
    /\ allPools = <<>>
    /\ lastPoolId = 0
    /\ fetchMore = FALSE
    /\ significantPoolsSet = {}
    /\ fapSignificantPools = <<>>
    /\ outstanding = 0
    /\ hist = Hist0(FALSE, [st |-> "absent", data |-> <<>>])

RunIdle ==
    /\ pc = "idle"
    /\ useCache = FALSE
    /\ limit = 0
    /\ cacheFile = [st |-> "absent", data |-> <<>>]
    /\ significantPools = <<>>
    /\ allPools = <<>>
    /\ lastPoolId = 0
    /\ fetchMore = FALSE
    /\ significantPoolsSet = {}
    /\ fapSignificantPools = <<>>
    /\ outstanding = 0
    /\ hist = Hist0(FALSE, [st |-> "absent", data |-> <<>>])

Init ==
    /\ pc = "main"
    /\ useCache \in BOOLEAN
    /\ limit \in Limits
    /\ cacheFile \in CacheFiles
    /\ significantPools = <<>>
    /\ allPools = <<>>
    /\ lastPoolId = 0
    /\ fetchMore = FALSE
    /\ significantPoolsSet = {}
    /\ fapSignificantPools = <<>>
    /\ outstanding = 0
    /\ hist = Hist0(useCache, cacheFile)
    /\ CallsIdle

fetchVars == <<allPools, lastPoolId, fetchMore, significantPoolsSet, fapSignificantPools>>
filterVars == <<fPool, fResult, fApr, fEnriched>>
priceVars == <<tpc, tpTokenIds, priceTable, tpIndex, tpTokenPrices, tpOutstanding, tpHist>>
runVars == <<pc, useCache, limit, significantPools, fetchVars, outstanding, hist>>
callVars == <<filterVars, priceVars, store, boot>>

\* Mutant: an exception of the cache filter leaves the function uncaught
Step1Uncaught ==
    /\ pc = "main"
    /\ IF useCache
       THEN LET cachedPools == loadFromCache(cacheFile)
            IN  IF ~cachedPools.isNull /\ Len(cachedPools.data) > 0
                THEN LET r == FilterCached(cachedPools.data)
                     IN  IF r.threw
                         THEN /\ pc' = "crashed"
                              /\ hist' = [hist EXCEPT !.outcome = "uncaught"]
                              /\ UNCHANGED <<useCache, significantPools>>
                         ELSE /\ significantPools' = r.val
                              /\ pc' = "step4"
                              /\ UNCHANGED <<useCache, hist>>
                ELSE /\ useCache' = FALSE
                     /\ pc' = "live"
                     /\ UNCHANGED <<significantPools, hist>>
       ELSE /\ pc' = "live"
            /\ UNCHANGED <<useCache, significantPools, hist>>
    /\ UNCHANGED <<limit, cacheFile, fetchVars, outstanding, callVars>>

\* app.js:184-195 and the test at app.js:198
Step1 ==
    /\ pc = "main"
    /\ IF useCache
       THEN LET cachedPools == loadFromCache(cacheFile)
            IN  IF ~cachedPools.isNull /\ Len(cachedPools.data) > 0
                THEN LET r == FilterCached(cachedPools.data)
                     IN  IF r.threw
                         THEN \* caught at app.js:273
                              /\ pc' = "done"
                              /\ hist' = [hist EXCEPT !.outcome = "caught"]
                              /\ UNCHANGED <<useCache, significantPools>>
                         ELSE /\ significantPools' = r.val
                              /\ pc' = "step4"
                              /\ UNCHANGED <<useCache, hist>>
                ELSE /\ useCache' = FALSE
                     /\ pc' = "live"
                     /\ UNCHANGED <<significantPools, hist>>
       ELSE /\ pc' = "live"
            /\ UNCHANGED <<useCache, significantPools, hist>>
    /\ UNCHANGED <<limit, cacheFile, fetchVars, outstanding, callVars>>

\* app.js:201 calling fetchAllPools(limit): app.js:94-99
FetchStart ==
    /\ pc = "live"
    /\ allPools' = <<>>
    /\ lastPoolId' = 0
    /\ fetchMore' = TRUE
    /\ significantPoolsSet' = {}
    /\ fapSignificantPools' = <<>>
    /\ hist' = [hist EXCEPT !.fetchCalled = TRUE]
    /\ pc' = "loop"
    /\ UNCHANGED <<useCache, limit, cacheFile, significantPools, outstanding, callVars>>

\* Mutant: the loop test ignores the limit
PageRequestNoLimit ==
    /\ pc = "loop"
    /\ fetchMore
    /\ outstanding' = outstanding + 1
    /\ hist' = [hist EXCEPT !.pageRequests = @ + 1,
                            !.cursors = Append(@, lastPoolId)]
    /\ pc' = "await"
    /\ UNCHANGED <<useCache, limit, cacheFile, significantPools, fetchVars, callVars>>

\* app.js:102-107: the loop test holds and the page request is issued
PageRequest ==
    /\ pc = "loop"
    /\ fetchMore /\ Len(allPools) < limit
    /\ outstanding' = outstanding + 1
    /\ hist' = [hist EXCEPT !.pageRequests = @ + 1,
                            !.cursors = Append(@, lastPoolId)]
    /\ pc' = "await"
    /\ UNCHANGED <<useCache, limit, cacheFile, significantPools, fetchVars, callVars>>

\* app.js:102, app.js:142: the loop test fails
LoopExit ==
    /\ pc = "loop"
    /\ ~(fetchMore /\ Len(allPools) < limit)
    /\ pc' = "fetchret"
    /\ UNCHANGED <<useCache, limit, cacheFile, significantPools, fetchVars,
                   outstanding, hist, callVars>>

\* app.js:107-133: the response arrives and its pools are processed
PageResponse ==
    /\ pc = "await"
    /\ \E page \in Pages :
         LET st0 == [allPools |-> allPools, lastPoolId |-> lastPoolId,
                     fetchMore |-> fetchMore, set |-> significantPoolsSet,
                     sig |-> fapSignificantPools, threw |-> FALSE]
             st == ProcessPools(page, limit, st0)
         IN  /\ allPools' = st.allPools
             /\ lastPoolId' = st.lastPoolId
             /\ significantPoolsSet' = st.set
             /\ fapSignificantPools' = st.sig
             /\ hist' = [hist EXCEPT !.pages = Append(@, page)]
             /\ IF st.threw
                THEN \* caught at app.js:138
                     /\ fetchMore' = st.fetchMore
                     /\ pc' = "fetchret"
                ELSE /\ fetchMore' = IF Len(page) < batchSize THEN FALSE ELSE st.fetchMore
                     /\ pc' = "delay"
    /\ outstanding' = outstanding - 1
    /\ UNCHANGED <<useCache, limit, cacheFile, significantPools, callVars>>

\* Mutant: the failed request is retried instead of ending the pass
PageErrorRetry ==
    /\ pc = "await"
    /\ outstanding' = outstanding - 1
    /\ hist' = [hist EXCEPT !.reqFailed = TRUE, !.requestsAtFail = hist.pageRequests]
    /\ pc' = "loop"
    /\ UNCHANGED <<useCache, limit, cacheFile, significantPools, fetchVars, callVars>>

\* app.js:107, app.js:138-140: the request raises and the exception is caught
PageError ==
    /\ pc = "await"
    /\ outstanding' = outstanding - 1
    /\ hist' = [hist EXCEPT !.reqFailed = TRUE, !.requestsAtFail = hist.pageRequests]
    /\ pc' = "fetchret"
    /\ UNCHANGED <<useCache, limit, cacheFile, significantPools, fetchVars, callVars>>

\* app.js:136: the delay elapses
DelayDone ==
    /\ pc = "delay"
    /\ pc' = "loop"
    /\ UNCHANGED <<useCache, limit, cacheFile, significantPools, fetchVars,
                   outstanding, hist, callVars>>

\* Mutant: the result of the fetch is not saved before step 4
FetchReturnNoSave ==
    /\ pc = "fetchret"
    /\ significantPools' = fapSignificantPools
    /\ hist' = [hist EXCEPT !.fetchResult = fapSignificantPools]
    /\ pc' = "step4"
    /\ UNCHANGED <<useCache, limit, cacheFile, fetchVars, outstanding, callVars>>

\* app.js:142, app.js:201-204: fetchAllPools returns and its result is saved
FetchReturn ==
    /\ pc = "fetchret"
    /\ significantPools' = fapSignificantPools
    /\ \E ok \in BOOLEAN :
         /\ cacheFile' = saveToCache(cacheFile, fapSignificantPools, ok)
         /\ hist' = [hist EXCEPT
                !.fetchResult = fapSignificantPools,
                !.saves = Append(@, [arg |-> fapSignificantPools, ok |-> ok,
                                     stage |-> "snapshot",
                                     priceCalled |-> hist.priceCalled,
                                     prices |-> EmptyObject])]
    /\ pc' = "step4"
    /\ UNCHANGED <<useCache, limit, fetchVars, outstanding, callVars>>

MaxFailAt == 2      \* a price request up to this one may raise

\* app.js:213-271: price lookup, enrichment and the final save
Enrichment ==
    \E table \in PriceTables, failAt \in 0..MaxFailAt, ok \in BOOLEAN :
      LET tokenAddresses == Unique(FlatTokens(significantPools))
          r == fetchTokenPrices(tokenAddresses, table, failAt)
          enriched == EnrichAll(significantPools, r.prices)
      IN  /\ significantPools' = enriched
          /\ cacheFile' = saveToCache(cacheFile, enriched, ok)
          /\ hist' = [hist EXCEPT
                !.atStep4 = TRUE,
                !.listAtStep4 = significantPools,
                !.priceCalled = TRUE,
                !.priceRequests = @ + r.requests,
                !.saves = Append(@, [arg |-> enriched, ok |-> ok,
                                     stage |-> "final",
                                     priceCalled |-> TRUE,
                                     prices |-> r.prices]),
                !.outcome = "returned"]

\* Mutant: no early return when the list is empty
Step4NoEarlyReturn ==
    /\ pc = "step4"
    /\ Enrichment
    /\ pc' = "done"
    /\ UNCHANGED <<useCache, limit, fetchVars, outstanding, callVars>>

\* app.js:208-271: the empty test, then price lookup, enrichment and final save
Step4 ==
    /\ pc = "step4"
    /\ IF Len(significantPools) = 0
       THEN /\ hist' = [hist EXCEPT !.atStep4 = TRUE,
                                    !.listAtStep4 = significantPools,
                                    !.outcome = "returned"]
            /\ UNCHANGED <<significantPools, cacheFile>>
       ELSE Enrichment
    /\ pc' = "done"
    /\ UNCHANGED <<useCache, limit, fetchVars, outstanding, callVars>>

Next ==
    \/ Step1
    \/ FetchStart
    \/ PageRequest
    \/ LoopExit
    \/ PageResponse
    \/ PageError
    \/ DelayDone
    \/ FetchReturn
    \/ Step4

Spec == Init /\ [][Next]_vars

\* every pending request completes or fails and every continuation is run
SpecFair == Spec /\ WF_vars(Next)

-----------------------------------------------------------------------------
(* Direct calls of isPoolSignificant *)

InitFilter ==
    /\ RunIdle
    /\ fPool \in FilterInputs
    /\ fResult = "none"
    /\ fApr = Undef
    /\ fEnriched = Null
    /\ PricesIdle /\ StoreIdle /\ BootIdle

CallFilter ==
    /\ fResult = "none"
    /\ fResult' = IF isPoolSignificant(fPool) THEN "true" ELSE "false"
    /\ fApr' = FilterApr(fPool)
    /\ UNCHANGED <<runVars, cacheFile, fPool, fEnriched, priceVars, store, boot>>

\* the map callback of app.js:223-269 applied to the pool, both tokens priced
CallEnrich ==
    /\ fResult # "none"
    /\ fEnriched = Null
    /\ fEnriched' = Enrich(fPool, [a \in {"0xa", "0xb"} |-> Num(2)])
    /\ UNCHANGED <<runVars, cacheFile, fPool, fResult, fApr, priceVars, store, boot>>

NextFilter == CallFilter \/ CallEnrich

SpecFilter == InitFilter /\ [][NextFilter]_vars

-----------------------------------------------------------------------------
(* Direct calls of the exported fetchTokenPrices(tokenIds), priceFetcher.js:15-34 *)

MaxTokens == 21     \* longest address list passed to fetchTokenPrices

\* distinct token addresses; only the first has an upper-case letter
AddrList ==
    <<"0xA", "0xb", "0xc", "0xd", "0xe", "0xf", "0x10", "0x11", "0x12", "0x13",
      "0x14", "0x15", "0x16", "0x17", "0x18", "0x19", "0x20", "0x21", "0x22",
      "0x23", "0x24", "0x25", "0x26", "0x27">>

TokenLists == {SubSeq(AddrList, 1, n) : n \in 0..MaxTokens}

\* what the price service holds: every address, or every second one
ServiceTables ==
    { [a \in {Lower(AddrList[i]) : i \in 1..Len(AddrList)} |-> Num(2)],
      [a \in {Lower(AddrList[i]) : i \in {j \in 1..Len(AddrList) : j % 2 = 1}}
            |-> Rat(1, 2)] }

InitPrices ==
    /\ RunIdle
    /\ FilterIdle /\ StoreIdle /\ BootIdle
    /\ tpc = "loop"
    /\ tpTokenIds \in TokenLists
    /\ priceTable \in ServiceTables
    /\ tpIndex = 0
    /\ tpTokenPrices = EmptyObject
    /\ tpOutstanding = 0
    /\ tpHist = TpHist0

otherVars == <<runVars, cacheFile, filterVars, store, boot>>

\* the batch of the current iteration: tokenIds.slice(i, i + batchSize)
CurrentBatch == SubSeq(tpTokenIds, tpIndex + 1, Min(tpIndex + priceBatchSize, Len(tpTokenIds)))

\* priceFetcher.js:20-22: the loop test holds and the batch request is issued
TpRequest ==
    /\ tpc = "loop"
    /\ tpIndex < Len(tpTokenIds)
    /\ tpOutstanding' = tpOutstanding + 1
    /\ tpHist' = [tpHist EXCEPT !.requests =
                     Append(@, [batch |-> CurrentBatch, mergedBefore |-> tpHist.merged,
                                delaysBefore |-> tpHist.delays,
                                inFlightBefore |-> tpOutstanding])]
    /\ tpc' = "await"
    /\ UNCHANGED <<tpTokenIds, priceTable, tpIndex, tpTokenPrices, otherVars>>

\* priceFetcher.js:22-24: the response arrives and is merged
TpResponse ==
    /\ tpc = "await"
    /\ tpOutstanding' = tpOutstanding - 1
    /\ tpTokenPrices' = ObjectAssign(tpTokenPrices, PriceResponse(priceTable, CurrentBatch))
    /\ tpHist' = [tpHist EXCEPT !.merged = @ + 1]
    /\ tpc' = "delay"
    /\ UNCHANGED <<tpTokenIds, priceTable, tpIndex, otherVars>>

\* Mutant: the catch returns what was merged so far
TpErrorKeepMerged ==
    /\ tpc = "await"
    /\ tpOutstanding' = tpOutstanding - 1
    /\ tpHist' = [tpHist EXCEPT !.failed = TRUE,
                                !.requestsAtFail = Len(tpHist.requests),
                                !.returned = TRUE,
                                !.result = tpTokenPrices]
    /\ tpc' = "done"
    /\ UNCHANGED <<tpTokenIds, priceTable, tpIndex, tpTokenPrices, otherVars>>

\* priceFetcher.js:22, 30-33: the request raises; the catch returns {}
TpError ==
    /\ tpc = "await"
    /\ tpOutstanding' = tpOutstanding - 1
    /\ tpHist' = [tpHist EXCEPT !.failed = TRUE,
                                !.requestsAtFail = Len(tpHist.requests),
                                !.returned = TRUE,
                                !.result = EmptyObject]
    /\ tpc' = "done"
    /\ UNCHANGED <<tpTokenIds, priceTable, tpIndex, tpTokenPrices, otherVars>>

\* Mutant: the next batch is prepared without waiting for the delay
TpDelaySkipped ==
    /\ tpc = "delay"
    /\ tpIndex' = tpIndex + priceBatchSize
    /\ tpc' = "loop"
    /\ UNCHANGED <<tpTokenIds, priceTable, tpTokenPrices, tpOutstanding, tpHist, otherVars>>

\* priceFetcher.js:26 and the increment at priceFetcher.js:20
TpDelayDone ==
    /\ tpc = "delay"
    /\ tpHist' = [tpHist EXCEPT !.delays = @ + 1]
    /\ tpIndex' = tpIndex + priceBatchSize
    /\ tpc' = "loop"
    /\ UNCHANGED <<tpTokenIds, priceTable, tpTokenPrices, tpOutstanding, otherVars>>

\* priceFetcher.js:20, 29: the loop test fails and tokenPrices is returned
TpReturn ==
    /\ tpc = "loop"
    /\ ~(tpIndex < Len(tpTokenIds))
    /\ tpHist' = [tpHist EXCEPT !.returned = TRUE, !.result = tpTokenPrices]
    /\ tpc' = "done"
    /\ UNCHANGED <<tpTokenIds, priceTable, tpIndex, tpTokenPrices, tpOutstanding, otherVars>>

NextPrices ==
    \/ TpRequest
    \/ TpResponse
    \/ TpError
    \/ TpDelayDone
    \/ TpReturn

SpecPrices == InitPrices /\ [][NextPrices]_vars

\* a run of fetchPoolsPricesAndAPR (app.js:179-276) or a direct call of
\* fetchTokenPrices (priceFetcher.js:15-34)
SpecSequential == (Init \/ InitPrices) /\ [][Next \/ NextPrices]_vars

-----------------------------------------------------------------------------
(* Direct calls of saveToCache and loadFromCache, app.js:146-169 *)

MaxSaves == 2       \* saves made before the load

\* lists the orchestrator passes to saveToCache: fetched pools, enriched
\* pools and nulls
SaveLists == SeqsUpTo(CacheEntries, MaxCacheLen)

InitStore ==
    /\ RunIdleButFile
    /\ cacheFile \in CacheFiles
    /\ FilterIdle /\ PricesIdle /\ BootIdle
    /\ store = [Store0 EXCEPT !.phase = "ready"]

\* saveToCache(list), app.js:146-153
StoreSave ==
    /\ store.phase = "ready"
    /\ store.calls < MaxSaves
    /\ \E list \in SaveLists, ok \in BOOLEAN :
         /\ cacheFile' = saveToCache(cacheFile, list, ok)
         /\ store' = [store EXCEPT !.calls = @ + 1,
                                   !.hasSaved = IF ok THEN TRUE ELSE @,
                                   !.lastSaved = IF ok THEN list ELSE @]
    /\ UNCHANGED <<runVars, filterVars, priceVars, boot>>

\* loadFromCache(), app.js:156-169
StoreLoad ==
    /\ store.phase = "ready"
    /\ store' = [store EXCEPT !.phase = "loaded",
                              !.loaded = loadFromCache(cacheFile),
                              !.fileAtLoad = cacheFile]
    /\ UNCHANGED <<runVars, cacheFile, filterVars, priceVars, boot>>

NextStore == StoreSave \/ StoreLoad

SpecStore == InitStore /\ [][NextStore]_vars

-----------------------------------------------------------------------------
(* Module start-up of app.js, app.js:9-31 and app.js:280-291 *)

\* app.js:13
req_env == <<"UNISWAP_V3_SUBGRAPH_URL", "COINGECKO_API_URL", "CACHE_FILENAME">>

\* the keys a for-in loop over the array req_env enumerates: its indices
ForInKeys == <<"0", "1", "2">>

\* process.env[name] is set; the environment has no variable named by an index
EnvSet(b, name) ==
    CASE name = "UNISWAP_V3_SUBGRAPH_URL" -> b.subgraphUrl
      [] name = "COINGECKO_API_URL" -> b.priceUrl
      [] name = "CACHE_FILENAME" -> b.cacheName
      [] name = "COINGECKO_API_DEMO_KEY" -> b.demoKey
      [] OTHER -> FALSE

\* app.js has import declarations, so it is module code and strict: assigning
\* to the undeclared env of for(env in req_env) raises a ReferenceError
EnvLoopVariableDeclared == FALSE

\* app.js:13-18: the error the check ends with ("none" when it passes)
RequiredEnvCheck(b) ==
    IF Len(ForInKeys) > 0 /\ ~EnvLoopVariableDeclared THEN "ReferenceError"
    ELSE IF \E i \in 1..Len(ForInKeys) : ~EnvSet(b, ForInKeys[i])
         THEN "MissingVariable"
         ELSE "none"

\* app.js:31: path.join(path.dirname, ...) is given the function path.dirname
\* and raises a TypeError
CacheFilePath(b) == "TypeError"

InitBoot ==
    /\ RunIdle
    /\ FilterIdle /\ PricesIdle /\ StoreIdle
    /\ boot \in [phase : {"start"}, subgraphUrl : BOOLEAN, priceUrl : BOOLEAN,
                  cacheName : BOOLEAN, demoKey : BOOLEAN, showHelp : BOOLEAN,
                  useCacheFlag : BOOLEAN, error : {"none"}]

\* the module body of app.js up to the call at app.js:290
Startup ==
    /\ boot.phase = "start"
    /\ LET check == RequiredEnvCheck(boot)
       IN  IF check # "none"
           THEN boot' = [boot EXCEPT !.phase = "aborted", !.error = check]
           ELSE IF CacheFilePath(boot) = "TypeError"
           THEN boot' = [boot EXCEPT !.phase = "aborted", !.error = "TypeError"]
           ELSE IF boot.showHelp
           THEN boot' = [boot EXCEPT !.phase = "help"]
           ELSE boot' = [boot EXCEPT !.phase = "running"]
    /\ UNCHANGED <<runVars, cacheFile, filterVars, priceVars, store>>

NextBoot == Startup

SpecBoot == InitBoot /\ [][NextBoot]_vars

-----------------------------------------------------------------------------
(* Reference notions used to state the properties *)

RECURSIVE Flatten(_)
Flatten(pp) == IF pp = <<>> THEN <<>> ELSE Head(pp) \o Flatten(Tail(pp))

\* the pools received so far, in order of arrival
Fetched == Flatten(hist.pages)

\* the received pools that count towards the limit
Considered == SubSeq(Fetched, 1, Min(Len(Fetched), limit))

FetchReturned == hist.fetchCalled /\ pc \in {"step4", "done"}

IdsOf(list) == {list[i].id : i \in 1..Len(list)}

PassesFilter(e) == e.tag # "null" /\ isPoolSignificant(e)

\* index i holds the first significant pool of its identifier in list
FirstSignificant(list, i) ==
    /\ PassesFilter(list[i])
    /\ \A j \in 1..(i - 1) : ~(list[j].id = list[i].id /\ PassesFilter(list[j]))

\* the pools of list that are the first significant one of their identifier
RECURSIVE FirstSignificantPools(_, _)
FirstSignificantPools(list, n) ==
    IF n = 0 THEN <<>>
    ELSE IF FirstSignificant(list, n)
         THEN Append(FirstSignificantPools(list, n - 1), list[n])
         ELSE FirstSignificantPools(list, n - 1)

-----------------------------------------------------------------------------
(* C1 *)

C1Liquidity(pool) ==
    IF pool.liquidity.k = "num" /\ pool.liquidity.v <= 0 THEN Num(1) ELSE pool.liquidity

C1Conditions(pool) ==
    LET apr == calculateAPR(pool.feeTier, pool.volumeUSD, C1Liquidity(pool))
    IN  /\ pool.volumeUSD.k = "num" /\ pool.volumeUSD.v # 0
        /\ pool.totalValueLockedUSD.k = "num"
        /\ pool.totalValueLockedUSD.v >= 50000 * pool.totalValueLockedUSD.d
        /\ pool.volumeUSD.v >= 1000 * pool.volumeUSD.d
        /\ apr.k = "num"
        /\ 20 * apr.v >= apr.d
        /\ apr.v < 200 * apr.d

\* C1: isPoolSignificant returns true if and only if volumeUSD is a finite
\* non-zero number, totalValueLockedUSD >= 50000, volumeUSD >= 1000 and the
\* APR (liquidity replaced by 1 when <= 0) is finite, >= 0.05 and < 200.
C1_FilterIff ==
    fResult # "none" => (fResult = "true" <=> C1Conditions(fPool))

\* a pool at the inclusive TVL boundary, with substituted liquidity, passes
C1_Witness ==
    /\ fResult = "true"
    /\ fPool.totalValueLockedUSD = Num(50000)
    /\ fPool.liquidity = Num(0)

-----------------------------------------------------------------------------
(* C2 *)

\* C2: when no request fails and the limit is not reached, the list that
\* fetchAllPools returns holds exactly the fetched pools that pass the filter:
\* an identifier is in the list iff a fetched pool with it passes.
C2_ReturnsExactlySignificant ==
    (FetchReturned /\ ~hist.reqFailed /\ Len(Fetched) < limit)
        => /\ IdsOf(hist.fetchResult)
                = {Fetched[i].id : i \in {j \in 1..Len(Fetched) : PassesFilter(Fetched[j])}}
           /\ \A k \in 1..Len(hist.fetchResult) :
                \E i \in 1..Len(Fetched) :
                    Fetched[i] = hist.fetchResult[k] /\ PassesFilter(Fetched[i])

-----------------------------------------------------------------------------
(* C3 *)

NoDuplicateIds(list) ==
    \A i, j \in 1..Len(list) : list[i].id = list[j].id => i = j

\* C3: the significant list never holds two entries with one identifier,
\* and of the pools with one identifier the first significant one fetched is
\* the entry that is kept.
C3_OneEntryPerIdentifier ==
    /\ NoDuplicateIds(fapSignificantPools)
    /\ FetchReturned =>
         /\ NoDuplicateIds(hist.fetchResult)
         /\ \A i \in 1..Len(Considered) :
              FirstSignificant(Considered, i) =>
                 \E k \in 1..Len(hist.fetchResult) : hist.fetchResult[k] = Considered[i]

-----------------------------------------------------------------------------
(* C4 *)

LastPage == hist.pages[Len(hist.pages)]

\* C4: a further page is requested only after a full batch with the count
\* below the limit, and the loop stops only once a page held fewer than 50
\* pools or the accumulated count has reached the limit.
C4_PaginationRule ==
    /\ (pc = "await" /\ hist.pageRequests > 1)
          => (Len(LastPage) = batchSize /\ Len(allPools) < limit)
    /\ (pc = "fetchret" /\ ~hist.reqFailed)
          => \/ Len(allPools) >= limit
             \/ hist.pages # <<>> /\ Len(LastPage) < batchSize

-----------------------------------------------------------------------------
(* C5 *)

\* C5: after a page request raised, no further page request is made, and
\* fetchAllPools returns normally with the significant pools of the pages
\* fetched before the failure.
C5_FailureEndsPass ==
    hist.reqFailed =>
        /\ hist.pageRequests = hist.requestsAtFail
        /\ outstanding = 0
        /\ pc \in {"fetchret", "step4", "done"}
        /\ hist.outcome # "caught"
        /\ fapSignificantPools
              = FirstSignificantPools(Considered, Len(Considered))
        /\ FetchReturned => hist.fetchResult = fapSignificantPools

\* a pass whose request raised has returned and the run has ended normally
C5_Witness ==
    /\ hist.reqFailed
    /\ pc = "done"
    /\ hist.outcome = "returned"
    /\ hist.pageRequests = 1

-----------------------------------------------------------------------------
(* C6 *)

RECURSIVE KeepPassing(_)
KeepPassing(list) ==
    IF list = <<>> THEN <<>>
    ELSE IF PassesFilter(Head(list)) THEN <<Head(list)>> \o KeepPassing(Tail(list))
         ELSE KeepPassing(Tail(list))

\* the cache contents found at start, filtered (nothing when no data loads)
FilteredCache0 == KeepPassing(loadFromCache(hist.cache0).data)

\* C6: a --use-cache run whose filtered cache contents are empty falls back
\* to a live fetch.
C6_FallbackWhenFilteredEmpty ==
    (pc = "done" /\ hist.useCache0 /\ FilteredCache0 = <<>>) => hist.fetchCalled

-----------------------------------------------------------------------------
(* C7 *)

HasNull(list) == \E i \in 1..Len(list) : list[i].tag = "null"

\* C7: a --use-cache run that loads null entries next to pools that pass the
\* filter drops the nulls and goes on to price lookup and the final save with
\* the remaining pools.
C7_NullsDroppedOnLoad ==
    (/\ pc = "done"
     /\ hist.useCache0
     /\ HasNull(loadFromCache(hist.cache0).data)
     /\ FilteredCache0 # <<>>)
        => /\ hist.outcome = "returned"
           /\ hist.priceCalled
           /\ hist.listAtStep4 = FilteredCache0

-----------------------------------------------------------------------------
(* C8 *)

HasFinalSave == \E i \in 1..Len(hist.saves) : hist.saves[i].stage = "final"

\* C8: a run that reaches step 4 with no significant pool ends without any
\* price lookup and without the final cache write.
C8_EmptySkipsPriceLookup ==
    (hist.atStep4 /\ hist.listAtStep4 = <<>>)
        => /\ ~hist.priceCalled
           /\ hist.priceRequests = 0
           /\ ~HasFinalSave
           /\ pc = "done"
           /\ hist.outcome = "returned"

\* a live fetch that found nothing ended the run at step 4
C8_Witness ==
    /\ pc = "done"
    /\ hist.atStep4
    /\ hist.listAtStep4 = <<>>
    /\ hist.fetchCalled
    /\ Len(hist.saves) = 1

-----------------------------------------------------------------------------
(* C9 *)

Snapshots == {i \in 1..Len(hist.saves) : hist.saves[i].stage = "snapshot"}

\* C9: every live fetch is followed at once, before any price lookup, by one
\* save of exactly the list the fetch returned; a run without live fetch makes
\* no such save.
C9_SnapshotAfterFetch ==
    /\ FetchReturned =>
         /\ Snapshots = {1}
         /\ hist.saves[1].arg = hist.fetchResult
         /\ ~hist.saves[1].priceCalled
         /\ (pc = "step4" /\ hist.saves[1].ok)
               => cacheFile = [st |-> "ok", data |-> Json(hist.fetchResult)]
    /\ ~FetchReturned => Snapshots = {}

\* a cache-path run fell back, fetched nothing and saved the empty list
C9_Witness ==
    /\ hist.useCache0
    /\ hist.fetchCalled
    /\ pc = "step4"
    /\ hist.saves[1].ok
    /\ cacheFile = [st |-> "ok", data |-> <<>>]
    /\ hist.cache0.st = "ok"

-----------------------------------------------------------------------------
(* C10 *)

C10Entry(pool, prices, entry) ==
    LET token0Price == PriceOrZero(prices, pool.token0)
        token1Price == PriceOrZero(prices, pool.token1)
    IN  IF LessThan(token0Price, 1, 1000000) \/ LessThan(token1Price, 1, 1000000)
        THEN entry = Null
        ELSE /\ entry.tag = "pool"
             /\ entry.id = pool.id
             /\ [entry EXCEPT !.token0Price = Undef, !.token1Price = Undef,
                              !.apr = Undef, !.oneDayVolTVL = Undef] = pool
             /\ entry.token0Price = token0Price
             /\ entry.token1Price = token1Price
             /\ entry.apr # Undef
             /\ entry.oneDayVolTVL # Undef

\* C10: a live run that fetched significant pools ends with a final save
\* holding one entry per significant pool, in order: null when a token price
\* is below 1e-6, else the pool with the enrichment fields attached.
C10_FinalListPerPool ==
    LET sig == FirstSignificantPools(Considered, Len(Considered))
    IN  (pc = "done" /\ hist.fetchCalled /\ sig # <<>>)
          => \E s \in 1..Len(hist.saves) :
                /\ hist.saves[s].stage = "final"
                /\ s = Len(hist.saves)
                /\ Len(hist.saves[s].arg) = Len(sig)
                /\ \A i \in 1..Len(sig) :
                      C10Entry(sig[i], hist.saves[s].prices, hist.saves[s].arg[i])

-----------------------------------------------------------------------------
(* C11 *)

\* C11: once a batch request of fetchTokenPrices has raised, no further
\* request is made and the call returns the empty mapping, whatever was
\* merged before, without raising; the caller's lookup (app.js:224-225) then
\* yields price 0 for every token.
C11_FailureGivesEmptyMapping ==
    tpHist.failed =>
        /\ tpc = "done"
        /\ tpHist.returned
        /\ ~tpHist.raised
        /\ tpHist.result = EmptyObject
        /\ Len(tpHist.requests) = tpHist.requestsAtFail
        /\ tpOutstanding = 0
        /\ \A i \in 1..Len(tpTokenIds) :
              PriceOrZero(tpHist.result, tpTokenIds[i]) = Num(0)

\* a later batch raised after an earlier batch had merged prices
C11_Witness ==
    /\ tpHist.failed
    /\ tpHist.merged >= 1
    /\ tpTokenPrices # EmptyObject
    /\ tpHist.result = EmptyObject

-----------------------------------------------------------------------------
(* C12 *)

\* C12: after any sequence of saves, a load returns the list of the most
\* recent successful save: the same records in the same order with the same
\* fields, nothing of earlier saves or of the earlier file contents.
C12_LoadReturnsLastSave ==
    (store.phase = "loaded" /\ store.hasSaved)
        => /\ ~store.loaded.isNull
           /\ Len(store.loaded.data) = Len(store.lastSaved)
           /\ store.loaded.data = store.lastSaved

\* two saves over a non-empty file, the last successful one holding a null
\* and an enriched pool
C12_Witness ==
    /\ store.phase = "loaded"
    /\ store.calls = 2
    /\ store.hasSaved
    /\ Len(store.lastSaved) = 2
    /\ HasNull(store.lastSaved)
    /\ \E i \in 1..2 : store.lastSaved[i].token0Price # Undef
    /\ store.loaded.data = store.lastSaved

-----------------------------------------------------------------------------
(* C18 *)

\* C18: loadFromCache never raises; it returns the parsed contents of a file
\* that exists and parses, and null (not an empty list) when the file is
\* absent or cannot be read or parsed; the file is as it was before the load.
C18_LoadNeverRaises ==
    store.phase = "loaded" =>
        /\ ~store.raised
        /\ store.fileAtLoad.st = "ok"
              => store.loaded = [isNull |-> FALSE, data |-> store.fileAtLoad.data]
        /\ store.fileAtLoad.st \in {"absent", "corrupt"} => store.loaded.isNull
        /\ cacheFile = store.fileAtLoad

\* a load of a file that does not parse gave null
C18_Witness ==
    /\ store.phase = "loaded"
    /\ store.fileAtLoad.st = "corrupt"
    /\ store.loaded.isNull

-----------------------------------------------------------------------------
(* C13 *)

\* C13: start-up aborts exactly when one of the three required settings is
\* absent; with all three set it passes and help or the orchestrator runs.
C13_AbortsIffSettingMissing ==
    boot.phase \notin {"idle", "start"} =>
        /\ boot.phase = "aborted"
              <=> ~(boot.subgraphUrl /\ boot.priceUrl /\ boot.cacheName)
        /\ boot.phase = "help" => boot.showHelp
        /\ boot.phase = "running" => ~boot.showHelp

-----------------------------------------------------------------------------
(* C14 *)

\* C14: every run of fetchPoolsPricesAndAPR ends, and ends normally: by a
\* return or in its own catch, never with an exception leaving the function.
C14_RunEndsNormally ==
    <>[](pc = "done" /\ hist.outcome \in {"returned", "caught"})

\* a run whose cache filter raised ended in the catch of the orchestrator
C14_Witness ==
    /\ pc = "done"
    /\ hist.outcome = "caught"
    /\ hist.useCache0

-----------------------------------------------------------------------------
(* C15 *)

\* a * b and a / b for finite rationals a, b (b > 0 for the quotient)
C15Times(a, b) == Reduced(a.v * b.v, a.d * b.d)
C15Over(a, b) == Reduced(a.v * b.d, a.d * b.v)

\* (F / 1e6 * V / L') * 365 * 100 with L' = L if L > 0 and 1 otherwise
C15Formula(pool) ==
    LET L1 == IF pool.liquidity.v > 0 THEN pool.liquidity ELSE Num(1)
        rate == C15Over(pool.feeTier, Num(1000000))
        fees == C15Times(rate, pool.volumeUSD)
        yearly == C15Times(C15Times(fees, Num(365)), Num(100))
    IN  C15Over(yearly, L1)

\* C15: for a finite volume >= 0 the filter and the enrichment use
\* (F / 1e6 * V / L') * 365 * 100 with L' = L if L > 0 and 1 otherwise; the
\* estimator is never given a liquidity <= 0 and a liquidity of 0 gives the
\* APR of a liquidity of 1.
C15_AprFormula ==
    (fResult # "none" /\ fPool.volumeUSD.k = "num" /\ fPool.volumeUSD.v >= 0)
        => /\ fApr = C15Formula(fPool)
           /\ GreaterThan(LiquidityOrOne(fPool), 0, 1)
           /\ fPool.liquidity = Num(0)
                 => fApr = calculateAPR(fPool.feeTier, fPool.volumeUSD, Num(1))
           /\ fEnriched # Null => fEnriched.apr = C15Formula(fPool)

\* a pool of liquidity 0 went through the filter and the enrichment
C15_Witness ==
    /\ fResult # "none"
    /\ fPool.liquidity = Num(0)
    /\ fPool.volumeUSD = Num(1000)
    /\ fPool.feeTier = Num(3000)
    /\ fEnriched # Null
    /\ fApr = Num(109500)

-----------------------------------------------------------------------------
(* C16 *)

\* the cursor of the first request: lastPoolId = "" (app.js:95)
EmptyCursor == 0

C16LastId(page) == page[Len(page)].id

-----------------------------------------------------------------------------
(* C17 *)

\* the batches requested so far, one after the other
C17Requested ==
    Flatten([k \in 1..Len(tpHist.requests) |-> tpHist.requests[k].batch])

\* C17: the k-th batch request of fetchTokenPrices carries the k-th slice of
\* at most 10 addresses and starts only when no request is in flight and the
\* k - 1 earlier responses have been merged and their delays have elapsed; a
\* call that ends without a failure has requested every address in exactly one
\* batch.  At most one page request of fetchAllPools is outstanding and every
\* earlier one has been answered.
C17_StrictlySequential ==
    /\ tpOutstanding \in {0, 1}
    /\ \A k \in 1..Len(tpHist.requests) :
         LET r == tpHist.requests[k]
         IN  /\ r.inFlightBefore = 0
             /\ r.mergedBefore = k - 1
             /\ r.delaysBefore = k - 1
             /\ Len(r.batch) \in 1..priceBatchSize
             /\ r.batch = SubSeq(tpTokenIds, priceBatchSize * (k - 1) + 1,
                                 Min(priceBatchSize * k, Len(tpTokenIds)))
    /\ (tpHist.returned /\ ~tpHist.failed) => C17Requested = tpTokenIds
    /\ outstanding \in {0, 1}
    /\ outstanding = hist.pageRequests - Len(hist.pages)
                        - (IF hist.reqFailed THEN 1 ELSE 0)
    /\ pc = "await" <=> outstanding = 1

\* a list of 21 addresses has been looked up in three batches
C17_Witness ==
    /\ tpHist.returned /\ ~tpHist.failed
    /\ Len(tpTokenIds) = 21
    /\ Len(tpHist.requests) = 3
    /\ tpHist.delays = 3

-----------------------------------------------------------------------------
(* C19 *)

\* C19: the all-pools list never holds more than limit pools, none of the
\* pools of a page beyond the limit is accumulated or reaches the significant
\* list, the significant list has at most limit entries, and at most
\* ceil(limit / 50) page requests are made.
C19_LimitBounds ==
    /\ Len(allPools) <= limit
    /\ Len(allPools) <= Len(Considered)
    /\ Len(fapSignificantPools) <= limit
    /\ Len(hist.fetchResult) <= limit
    /\ Len(significantPools) <= limit \/ hist.useCache0
    /\ hist.pageRequests * batchSize <= limit + batchSize - 1

\* a page of two pools has been processed under a limit of 1
C19_Witness ==
    /\ pc = "fetchret"
    /\ limit = 1
    /\ hist.pageRequests = 1
    /\ Len(hist.pages) = 1 /\ Len(hist.pages[1]) = 2
    /\ Len(allPools) = limit

====
